---- MODULE Spec2Model ----
(***************************************************************************)
(* Smart Study Buddy (app.py): the answer resolver get_answer with its     *)
(* in-memory cache ai_cache and the persisted ai_cache.json, the quiz      *)
(* generator generate_ai_mcqs and the scoring branch of ai_quiz.           *)
(*                                                                         *)
(* Text is modelled by TLA+ strings and handled character by character:    *)
(* str.strip, str.find, str.rfind, json.dump(s) and json.load(s) are       *)
(* computed, not assumed.  JSON text is limited to objects, arrays,        *)
(* strings without escapes, null and unsigned integers.                    *)
(***************************************************************************)
EXTENDS Integers, Sequences, FiniteSets, TLC

(***************************************************************************)
(* Strings                                                                 *)
(***************************************************************************)
\* s[i] of Python, 1-based; "" outside the string.
Ch(s, i) == IF i >= 1 /\ i <= Len(s) THEN SubSeq(s, i, i) ELSE ""

\* s[i:] of Python, 1-based.
From(s, i) == IF i > Len(s) THEN "" ELSE SubSeq(s, i, Len(s))

IsSpace(c) == c = " "

RECURSIVE LStrip(_)
LStrip(s) == IF Len(s) > 0 /\ IsSpace(Ch(s, 1)) THEN LStrip(From(s, 2)) ELSE s

RECURSIVE RStrip(_)
RStrip(s) ==
    IF Len(s) > 0 /\ IsSpace(Ch(s, Len(s)))
    THEN RStrip(SubSeq(s, 1, Len(s) - 1))
    ELSE s

\* str.strip()
Strip(s) == RStrip(LStrip(s))

\* str.find(c): the 0-based index of the first c, -1 when there is none.
Find(s, c) ==
    LET hits == {i \in 1..Len(s) : Ch(s, i) = c}
    IN  IF hits = {} THEN -1
        ELSE (CHOOSE i \in hits : \A j \in hits : i <= j) - 1

\* str.rfind(c): the 0-based index of the last c, -1 when there is none.
RFind(s, c) ==
    LET hits == {i \in 1..Len(s) : Ch(s, i) = c}
    IN  IF hits = {} THEN -1
        ELSE (CHOOSE i \in hits : \A j \in hits : i >= j) - 1

\* s[start:end] of Python for 0-based start, end >= 0.
Slice(s, start, end) ==
    LET e == IF end > Len(s) THEN Len(s) ELSE end
    IN  IF start >= e THEN "" ELSE SubSeq(s, start + 1, e)

(***************************************************************************)
(* JSON values: tagged records.  A dict is the ordered sequence of its     *)
(* <<key, value>> items, as a Python dict keeps insertion order.           *)
(***************************************************************************)
JNull == [t |-> "null"]
JStr(s) == [t |-> "str", s |-> s]
JNum(n) == [t |-> "num", n |-> n]
JList(items) == [t |-> "list", items |-> items]
JDict(items) == [t |-> "dict", items |-> items]

Keys(items) == {items[i][1] : i \in 1..Len(items)}

\* d[k] for a key that is present.
ItemGet(items, k) ==
    items[CHOOSE i \in 1..Len(items) : items[i][1] = k][2]

\* d[k] = v : a present key keeps its place, a new key goes last.
ItemSet(items, k, v) ==
    IF k \in Keys(items)
    THEN [i \in 1..Len(items) |->
            IF items[i][1] = k THEN <<k, v>> ELSE items[i]]
    ELSE Append(items, <<k, v>>)

Digits == {"0", "1", "2", "3", "4", "5", "6", "7", "8", "9"}

DigitVal(c) ==
    CASE c = "0" -> 0 [] c = "1" -> 1 [] c = "2" -> 2 [] c = "3" -> 3
      [] c = "4" -> 4 [] c = "5" -> 5 [] c = "6" -> 6 [] c = "7" -> 7
      [] c = "8" -> 8 [] OTHER -> 9

DigitStr(n) ==
    CASE n = 0 -> "0" [] n = 1 -> "1" [] n = 2 -> "2" [] n = 3 -> "3"
      [] n = 4 -> "4" [] n = 5 -> "5" [] n = 6 -> "6" [] n = 7 -> "7"
      [] n = 8 -> "8" [] OTHER -> "9"

RECURSIVE NumStr(_)
NumStr(n) == IF n < 10 THEN DigitStr(n) ELSE NumStr(n \div 10) \o DigitStr(n % 10)

\* The encoder's quoting of a string (no character here needs an escape).
Quote(s) == "\"" \o s \o "\""

RECURSIVE Dumps(_)
RECURSIVE DumpsList(_, _)
RECURSIVE DumpsItems(_, _)
\* json.dumps(v) with the default separators ", " and ": ".
Dumps(v) ==
    CASE v.t = "null" -> "null"
      [] v.t = "str"  -> Quote(v.s)
      [] v.t = "num"  -> NumStr(v.n)
      [] v.t = "list" -> "[" \o DumpsList(v.items, 1) \o "]"
      [] OTHER        -> "{" \o DumpsItems(v.items, 1) \o "}"

DumpsList(items, i) ==
    IF i > Len(items) THEN ""
    ELSE (IF i > 1 THEN ", " ELSE "") \o Dumps(items[i]) \o DumpsList(items, i + 1)

DumpsItems(items, i) ==
    IF i > Len(items) THEN ""
    ELSE (IF i > 1 THEN ", " ELSE "") \o Quote(items[i][1]) \o ": "
         \o Dumps(items[i][2]) \o DumpsItems(items, i + 1)

(***************************************************************************)
(* json.loads: a recursive-descent parse.  Each parser takes the text and  *)
(* a 1-based position and yields [ok, v, i]: the value and the position    *)
(* after it.                                                               *)
(***************************************************************************)
Fail == [ok |-> FALSE, v |-> JNull, i |-> 0]
Got(v, i) == [ok |-> TRUE, v |-> v, i |-> i]

RECURSIVE SkipWs(_, _)
SkipWs(s, i) == IF IsSpace(Ch(s, i)) THEN SkipWs(s, i + 1) ELSE i

\* The position of the closing quote of a string whose text starts at i; 0 if none.
RECURSIVE StrEnd(_, _)
StrEnd(s, i) ==
    IF i > Len(s) THEN 0
    ELSE IF Ch(s, i) = "\"" THEN i
    ELSE StrEnd(s, i + 1)

ParseString(s, i) ==
    IF Ch(s, i) # "\"" THEN Fail
    ELSE LET e == StrEnd(s, i + 1)
         IN  IF e = 0 THEN Fail
             ELSE Got(JStr(IF e = i + 1 THEN "" ELSE SubSeq(s, i + 1, e - 1)), e + 1)

RECURSIVE ParseDigits(_, _, _)
ParseDigits(s, i, acc) ==
    IF Ch(s, i) \in Digits THEN ParseDigits(s, i + 1, acc * 10 + DigitVal(Ch(s, i)))
    ELSE Got(JNum(acc), i)

\* A dict built from the parsed pairs: a repeated key keeps its first place
\* and takes its last value.
RECURSIVE PairsToItems(_, _, _)
PairsToItems(pairs, i, acc) ==
    IF i > Len(pairs) THEN acc
    ELSE PairsToItems(pairs, i + 1, ItemSet(acc, pairs[i][1], pairs[i][2]))

RECURSIVE ParseValue(_, _)
RECURSIVE ParseElems(_, _, _)
RECURSIVE ParseMembers(_, _, _)
ParseValue(s, i0) ==
    LET i == SkipWs(s, i0)
        c == Ch(s, i)
    IN  CASE c = "\"" -> ParseString(s, i)
          [] c = "n"  -> IF Slice(s, i - 1, i + 3) = "null" THEN Got(JNull, i + 4) ELSE Fail
          [] c \in Digits ->
                \* a leading zero is a number of its own
                IF c = "0" THEN Got(JNum(0), i + 1) ELSE ParseDigits(s, i, 0)
          [] c = "[" ->
                LET j == SkipWs(s, i + 1)
                IN  IF Ch(s, j) = "]" THEN Got(JList(<<>>), j + 1)
                    ELSE ParseElems(s, j, <<>>)
          [] c = "{" ->
                LET j == SkipWs(s, i + 1)
                IN  IF Ch(s, j) = "}" THEN Got(JDict(<<>>), j + 1)
                    ELSE ParseMembers(s, j, <<>>)
          [] OTHER -> Fail

\* The elements of an array from position i, after "[" or ",".
ParseElems(s, i, acc) ==
    LET r == ParseValue(s, i)
    IN  IF ~r.ok THEN Fail
        ELSE LET j == SkipWs(s, r.i)
             IN  CASE Ch(s, j) = "]" -> Got(JList(Append(acc, r.v)), j + 1)
                   [] Ch(s, j) = "," -> ParseElems(s, j + 1, Append(acc, r.v))
                   [] OTHER -> Fail

\* The members of an object from position i, after "{" or ",".
ParseMembers(s, i, acc) ==
    LET k == ParseString(s, SkipWs(s, i))
    IN  IF ~k.ok THEN Fail
        ELSE LET c == SkipWs(s, k.i)
             IN  IF Ch(s, c) # ":" THEN Fail
                 ELSE LET r == ParseValue(s, c + 1)
                      IN  IF ~r.ok THEN Fail
                          ELSE LET j == SkipWs(s, r.i)
                                   acc2 == Append(acc, <<k.v.s, r.v>>)
                               IN  CASE Ch(s, j) = "}" ->
                                          Got(JDict(PairsToItems(acc2, 1, <<>>)), j + 1)
                                     [] Ch(s, j) = "," -> ParseMembers(s, j + 1, acc2)
                                     [] OTHER -> Fail

\* json.loads(s): [ok, v]; ok is FALSE where json.loads raises JSONDecodeError
\* (no value, or extra data after it).
JsonLoads(s) ==
    LET r == ParseValue(s, 1)
    IN  IF r.ok /\ SkipWs(s, r.i) > Len(s) THEN [ok |-> TRUE, v |-> r.v]
        ELSE [ok |-> FALSE, v |-> JNull]

(***************************************************************************)
(* The Content Store                                                       *)
(***************************************************************************)
questions ==
    "Math" :> ( "What is 2+2?" :> "2+2 = 4"
             @@ "What is 10-3?" :> "10-3 = 7"
             @@ "What is correlation?" :>
                   "Correlation measures the relationship between two variables." )
 @@ "Science" :> ( "What is H2O?" :> "H2O is water"
             @@ "Which planet is nearest to the sun?" :> "Mercury"
             @@ "What is Ohm's law?" :>
                   "Ohm's law states that V = IR, where V is voltage, I is current, and R is resistance." )
 @@ "English" :> ( "Synonym of happy?" :> "Joyful"
             @@ "Antonym of fast?" :> "Slow" )
 @@ "Electronics" :> ( "What does LED stand for?" :> "Light Emitting Diode"
             @@ "What is the unit of electric current?" :> "Ampere" )

\* Python's None, where a string is expected.
None == "<None>"

\* questions.get(sub, {}).get(question)
StoreGet(sub, question) ==
    IF sub \in DOMAIN questions /\ question \in DOMAIN questions[sub]
    THEN questions[sub][question]
    ELSE None

\* "if ans:" : None and the empty string are false.
Truthy(ans) == ans # None /\ ans # ""

EmptyMessage == "Sorry, AI could not generate an answer."
FailedMessage == "Sorry, the answer could not be generated."

(***************************************************************************)
(* Bounds and inputs                                                       *)
(***************************************************************************)
\* Request threads of the server.
NThreads == 2
\* Requests served in one run.
MaxRequests == 2
\* Elements of the JSON array in the remote model's quiz text.
MaxArr == 2
\* Form fields q0, q1, ... a submission may carry.
MaxFields == 2

Threads == 1..NThreads

\* Subjects of the requests: one of the store and one the store does not know.
Subs == {"Math", "History"}
\* Question texts of the requests: one the store holds under Math and one it
\* does not hold.
Qs == {"What is 2+2?", "Why?"}
\* What the remote model returns for a question; Raised stands for any exception.
Raised == "<raised>"
RemoteTexts == {" Four ", "  "}

\* ai_cache.json when the process starts: absent, or one of these contents.
InitFiles ==
    { "{\"Why?\": \"Because.\"}",
      "{\"Why?\": \"Because.\"} \"What is 2+2?\": \"Four\"}",
      "{not json" }

(***************************************************************************)
(* generate_ai_mcqs                                                        *)
(***************************************************************************)
\* Python's == on two JSON values.  The answers and options of the inputs
\* are strings, numbers and null, where it is equality of the values.
PyEq(a, b) == a = b

\* x in lst
PyIn(x, lst) == \E i \in 1..Len(lst) : PyEq(lst[i], x)

\* A validation that does not look for the answer among the options.
ValidMcq_AnyAnswer(q) ==
    /\ q.t = "dict"
    /\ "question" \in Keys(q.items)
    /\ "options" \in Keys(q.items)
    /\ "answer" \in Keys(q.items)
    /\ ItemGet(q.items, "options").t = "list"
    /\ Len(ItemGet(q.items, "options").items) = 4

\* Lines 136-144: the test an element of the model's array has to pass.
ValidMcq(q) ==
    /\ q.t = "dict"
    /\ "question" \in Keys(q.items)
    /\ "options" \in Keys(q.items)
    /\ "answer" \in Keys(q.items)
    /\ ItemGet(q.items, "options").t = "list"
    /\ Len(ItemGet(q.items, "options").items) = 4
    /\ PyIn(ItemGet(q.items, "answer"), ItemGet(q.items, "options").items)

Mcq(question, options, answer) ==
    JDict(<< <<"question", question>>, <<"options", options>>, <<"answer", answer>> >>)

\* Lines 157-161: the i-th placeholder question, i counted from 1.
SampleMcq(subject, i) ==
    Mcq(JStr("Sample " \o subject \o " question " \o NumStr(i) \o "?"),
        JList(<<JStr("Option A"), JStr("Option B"), JStr("Option C"),
                JStr("Option D")>>),
        JStr("Option A"))

\* A fallback quiz that is one question short.
FallbackMcqs_OneShort(subject, num_questions) ==
    [i \in 1..(num_questions - 1) |-> SampleMcq(subject, i)]

\* Lines 156-163: the fallback quiz.
FallbackMcqs(subject, num_questions) ==
    [i \in 1..num_questions |-> SampleMcq(subject, i)]

\* Lines 134-145: the elements that pass, in order.
Validated(mcqs) == SelectSeq(mcqs, ValidMcq)

\* Lines 117-163 for a remote call that ends in out.  path tells which return
\* statement was reached: line 150 ("validated") or line 156 ("fallback").
generate_ai_mcqs(subject, num_questions, out) ==
    LET fallback == [path |-> "fallback",
                     mcqs |-> FallbackMcqs(subject, num_questions)]
    IN  IF out = Raised THEN fallback
        ELSE LET text == Strip(out)
                 start == Find(text, "[")
                 end == RFind(text, "]") + 1
             IN  IF start = -1 \/ end = 0 THEN fallback
                 ELSE LET r == JsonLoads(Slice(text, start, end))
                      IN  IF ~r.ok THEN fallback
                          ELSE IF Validated(r.v.items) = <<>> THEN fallback
                          ELSE [path |-> "validated", mcqs |-> Validated(r.v.items)]

(***************************************************************************)
(* ai_quiz, POST: the score                                                *)
(***************************************************************************)
\* request.form.get("q<i>") for the 0-based index i: None when the field is absent.
Selected(sel, i) == IF i + 1 <= Len(sel) THEN sel[i + 1] ELSE None

\* selected == q.get("answer") for a dict q: q.get gives None for a missing
\* key, and JSON null is None.
AnswerMatches(selected, q) ==
    LET answer == IF "answer" \in Keys(q.items) THEN ItemGet(q.items, "answer")
                  ELSE JNull
    IN  IF selected = None THEN answer = JNull
        ELSE answer = JStr(selected)

\* What enumerate(mcqs) goes through: the elements of a list, the keys of a
\* dict, the characters of a string.
Iterated(v) ==
    CASE v.t = "list" -> v.items
      [] v.t = "dict" -> [i \in 1..Len(v.items) |-> JStr(v.items[i][1])]
      [] OTHER -> [i \in 1..Len(v.s) |-> JStr(Ch(v.s, i))]

\* Lines 221-234.  mcqs_json is the form field or None when it is absent; sel
\* the fields q0, q1, ...  An exception outside the try of lines 223-226
\* (enumerate of a number or null, .get of an element that is no dict) is
\* not caught: the request ends with status 500.
ai_quiz_post(mcqs_json, sel) ==
    LET r == JsonLoads(IF mcqs_json = None THEN "[]" ELSE mcqs_json)
        mcqs == IF r.ok THEN r.v ELSE JList(<<>>)
    IN  IF mcqs.t \in {"num", "null"} THEN [status |-> 500, score |-> 0, total |-> 0]
        ELSE LET qs == Iterated(mcqs)
             IN  IF \E i \in 1..Len(qs) : qs[i].t # "dict"
                 THEN [status |-> 500, score |-> 0, total |-> 0]
                 ELSE [status |-> 200,
                       score |-> Cardinality({i \in 1..Len(qs) :
                                    AnswerMatches(Selected(sel, i - 1), qs[i])}),
                       total |-> Len(qs)]

(***************************************************************************)
(* Inputs of the quiz                                                      *)
(***************************************************************************)
Options4 == JList(<<JStr("A"), JStr("B"), JStr("C"), JStr("D")>>)

\* What the remote model may put in its array: a question as asked for, one
\* whose answer and first option are null, one whose answer is no option, one
\* with three options, one without an answer, one whose options are a string,
\* and a number.
Elems ==
    { Mcq(JStr("Q1"), Options4, JStr("B")),
      Mcq(JStr("Q2"), JList(<<JNull, JStr("A"), JStr("B"), JStr("C")>>), JNull),
      Mcq(JStr("Q3"), Options4, JStr("E")),
      Mcq(JStr("Q4"), JList(<<JStr("A"), JStr("B"), JStr("C")>>), JStr("A")),
      JDict(<< <<"question", JStr("Q5")>>, <<"options", Options4>> >>),
      Mcq(JStr("Q6"), JStr("ABCD"), JStr("A")),
      JNum(7) }

Arrays == UNION {[1..n -> Elems] : n \in 0..MaxArr}

\* The text around the array: none, prose, prose that has a bracket of its own.
Wraps == {"bare", "prose", "bracket"}

Wrapped(wrap, json) ==
    CASE wrap = "bare" -> json
      [] wrap = "prose" -> " Here is your quiz: " \o json \o " Good luck! "
      [] OTHER -> "Quiz [draft]: " \o json

\* Text of the remote model that holds no array at all.
RawTexts == {"I cannot help with that.", "[not json]", "] ["}

\* num_questions: what the route passes, and a count an array can exceed.
Counts == {1, 5}

\* The option a form field may carry.
Choices == {"B", "Option A"}

Fields == UNION {[1..n -> Choices \cup {None}] : n \in 0..MaxFields}

\* What a client may send instead of the quiz it was given.
Tampered ==
    { "not json", "5", "null", "{\"a\": 1}", "[7]", "\"\"",
      "[{\"question\": \"Q\", \"options\": [\"A\", \"B\", \"C\", \"D\"]}]" }

(***************************************************************************)
(* State                                                                   *)
(***************************************************************************)
VARIABLES
    phase,       \* "boot": the module is being imported; "up"; "crashed"
    fileExists,  \* os.path.exists("ai_cache.json")
    file,        \* the content of ai_cache.json
    ai_cache,    \* the dict ai_cache: its <<question, answer>> items in order
    th,          \* per thread: the request it serves and its locals
    resp,        \* the request that returned last, with what it returned
    first,       \* history: per <<sub, question>>, what the first resolve that
                 \* got an answer from the remote model returned
    nreq,        \* requests begun
    qz           \* the quiz of one client: the page it was given, what it
                 \* sent back and the score

vars == <<phase, fileExists, file, ai_cache, th, resp, first, nreq, qz>>

\* A thread that serves no request.  Beside the locals of get_answer a request
\* records: called, the remote call was made; remote, how it ended ("text",
\* "empty", "raised"); wrote, line 81 was executed; hadKey, the question was a
\* key of ai_cache when the request began; expect, first[<<sub, question>>]
\* when the request began.
NoRequest ==
    [ pc |-> "idle", op |-> "none", sub |-> None, question |-> None,
      ans |-> None, buf |-> "", it |-> 0, n0 |-> 0, ret |-> None,
      called |-> FALSE, remote |-> "none", wrote |-> FALSE, expect |-> None,
      hadKey |-> FALSE ]

\* No quiz asked for yet.
NoQuiz ==
    [ pc |-> "start", subject |-> None, num_questions |-> 0, wrap |-> "raw",
      arr |-> <<>>, out |-> "", path |-> "none", mcqs |-> <<>>,
      mcqs_json |-> None, sent |-> None, sel |-> <<>>,
      status |-> 0, score |-> 0, total |-> 0 ]

Init ==
    /\ phase = "boot"
    /\ \/ fileExists = FALSE /\ file = ""
       \/ fileExists = TRUE /\ file \in InitFiles
    /\ ai_cache = <<>>
    /\ th = [t \in Threads |-> NoRequest]
    /\ resp = NoRequest
    /\ first = [k \in Subs \X Qs |-> None]
    /\ nreq = 0
    /\ qz = NoQuiz

\* The items of a parsed JSON object whose values are all strings, as
\* <<question, answer>> pairs.
StrItems(v) == [i \in 1..Len(v.items) |-> <<v.items[i][1], v.items[i][2].s>>]

(***************************************************************************)
(* Start-up: the module body                                               *)
(***************************************************************************)
\* if os.path.exists(...): ai_cache = json.load(f)  else: ai_cache = {}
\* json.load raises on malformed text and nothing catches it: the import fails.
LoadCache ==
    /\ phase = "boot"
    /\ IF ~fileExists
       THEN phase' = "up" /\ ai_cache' = <<>>
       ELSE LET r == JsonLoads(file)
            IN  IF r.ok
                THEN phase' = "up" /\ ai_cache' = StrItems(r.v)
                ELSE phase' = "crashed" /\ ai_cache' = ai_cache
    /\ UNCHANGED <<fileExists, file, th, resp, first, nreq, qz>>

(***************************************************************************)
(* get_answer                                                              *)
(***************************************************************************)
\* A get_answer that looks in the cache before the store.
StoreHit_AfterCache(sub, question) ==
    Truthy(StoreGet(sub, question)) /\ question \notin Keys(ai_cache)

\* Lines 62-63: the store is consulted first, "if ans:".
StoreHit(sub, question) == Truthy(StoreGet(sub, question))

\* A get_answer that never finds a question in the cache.
CacheHit_Never(cache, question) == FALSE

\* Line 67: question in ai_cache
CacheHit(cache, question) == question \in Keys(cache)

\* The server hands a request to a thread that serves none; the threads are
\* alike, so it is the first such thread.
Free(t) ==
    /\ th[t].pc = "idle"
    /\ \A u \in Threads : u < t => th[u].pc # "idle"

\* Thread t's request r returns value: the thread is free again.
Return(t, r, value) ==
    /\ th' = [th EXCEPT ![t] = NoRequest]
    /\ resp' = [r EXCEPT !.pc = "done", !.ret = value, !.ans = None, !.buf = "",
                         !.it = 0, !.n0 = 0]

\* What get_answer returns at line 85.
Line85(ans) == IF Truthy(ans) THEN ans ELSE EmptyMessage

\* Lines 62-68: the store, then the cache; on a miss go on to the remote call.
get_answer(t, sub, question) ==
    /\ phase = "up"
    /\ Free(t)
    /\ nreq < MaxRequests
    /\ nreq' = nreq + 1
    /\ LET r == [NoRequest EXCEPT !.op = "resolve", !.sub = sub,
                                  !.question = question,
                                  !.expect = first[<<sub, question>>],
                                  !.hadKey = CacheHit(ai_cache, question)]
       IN  IF StoreHit(sub, question)
           THEN Return(t, r, StoreGet(sub, question))
           ELSE IF CacheHit(ai_cache, question)
           THEN Return(t, r, ItemGet(ai_cache, question))
           ELSE th' = [th EXCEPT ![t] = [r EXCEPT !.pc = "remote"]]
                /\ resp' = resp
    /\ UNCHANGED <<phase, fileExists, file, ai_cache, first, qz>>

\* Lines 71-78: the remote call and the strip of its text; any exception
\* goes to the handler of lines 87-89.
generate_content(t, out) ==
    /\ th[t].pc = "remote"
    /\ IF out = Raised
       THEN Return(t, [th[t] EXCEPT !.called = TRUE, !.remote = "raised"],
                   FailedMessage)
       ELSE /\ th' = [th EXCEPT ![t] =
                        [@ EXCEPT !.called = TRUE,
                                  !.remote = IF Strip(out) = "" THEN "empty" ELSE "text",
                                  !.ans = Strip(out),
                                  !.pc = "insert"]]
            /\ resp' = resp
    /\ UNCHANGED <<phase, fileExists, file, ai_cache, first, nreq, qz>>

\* What line 81 stores.
Cached(cache, question, ans) == ItemSet(cache, question, ans)

\* Line 81: ai_cache[question] = ans
insert(t) ==
    /\ th[t].pc = "insert"
    /\ ai_cache' = Cached(ai_cache, th[t].question, th[t].ans)
    /\ th' = [th EXCEPT ![t].pc = "open", ![t].wrote = TRUE]
    /\ UNCHANGED <<phase, fileExists, file, resp, first, nreq, qz>>

\* Line 82: open("ai_cache.json", "w") truncates the file; what is written
\* stays in the file object's buffer until the file is closed.
open(t) ==
    /\ th[t].pc = "open"
    /\ fileExists' = TRUE
    /\ file' = ""
    /\ th' = [th EXCEPT ![t].pc = "encode", ![t].buf = ""]
    /\ UNCHANGED <<phase, ai_cache, resp, first, nreq, qz>>

\* Line 83, json.dump(ai_cache, f): the encoder writes "{" and starts its
\* loop over the items of the dict, which is not empty after line 81.  The
\* dict iterator remembers the size of the dict.
encode(t) ==
    /\ th[t].pc = "encode"
    /\ th' = [th EXCEPT ![t].pc = "dump", ![t].buf = "{", ![t].it = 0,
                        ![t].n0 = Len(ai_cache)]
    /\ UNCHANGED <<phase, fileExists, file, ai_cache, resp, first, nreq, qz>>

\* A write that would replace the whole content of the file.
Flushed_Replacing(content, buf) == buf

\* The file after a file object opened with "w" and never written before
\* writes buf: at offset 0, over what is there, without truncating.
Flushed(content, buf) == buf \o From(content, Len(buf) + 1)

\* The first resolve of <<sub, question>> that got an answer from the remote
\* model returns value.
Note(f, r, value) ==
    IF r.called /\ r.remote # "raised" /\ f[<<r.sub, r.question>>] = None
    THEN [f EXCEPT ![<<r.sub, r.question>>] = value]
    ELSE f

\* Line 83: one step of the encoder's loop over the dict's items.  The dict
\* iterator raises RuntimeError when the dict has changed size since the loop
\* began; the with statement then closes the file (writing the buffer) and
\* the handler of lines 87-89 returns.
dump(t) ==
    /\ th[t].pc = "dump"
    /\ LET r == th[t]
           i == r.it + 1
       IN  IF Len(ai_cache) # r.n0
           THEN /\ file' = Flushed(file, r.buf)
                /\ Return(t, r, FailedMessage)
                /\ first' = Note(first, r, FailedMessage)
           ELSE IF i <= r.n0
           THEN /\ th' = [th EXCEPT ![t].it = i,
                            ![t].buf = r.buf \o (IF i = 1 THEN "" ELSE ", ")
                                       \o Quote(ai_cache[i][1]) \o ": "
                                       \o Quote(ai_cache[i][2])]
                /\ UNCHANGED <<file, resp, first>>
           ELSE /\ th' = [th EXCEPT ![t].buf = r.buf \o "}", ![t].pc = "close"]
                /\ UNCHANGED <<file, resp, first>>
    /\ UNCHANGED <<phase, fileExists, ai_cache, nreq, qz>>

\* The end of the with statement (the buffer reaches the file) and line 85.
close(t) ==
    /\ th[t].pc = "close"
    /\ file' = Flushed(file, th[t].buf)
    /\ Return(t, th[t], Line85(th[t].ans))
    /\ first' = Note(first, th[t], Line85(th[t].ans))
    /\ UNCHANGED <<phase, fileExists, ai_cache, nreq, qz>>

Next ==
    \/ LoadCache
    \/ \E t \in Threads, sub \in Subs, question \in Qs : get_answer(t, sub, question)
    \/ \E t \in Threads, out \in RemoteTexts \cup {Raised} : generate_content(t, out)
    \/ \E t \in Threads : insert(t)
    \/ \E t \in Threads : open(t)
    \/ \E t \in Threads : encode(t)
    \/ \E t \in Threads : dump(t)
    \/ \E t \in Threads : close(t)

Spec == Init /\ [][Next]_vars

(***************************************************************************)
(* The quiz routes.  They read and write nothing the resolver uses, so     *)
(* they are run on their own, by one client, with the resolver at rest.    *)
(***************************************************************************)
\* What the remote call of generate_ai_mcqs may end in: an array of MaxArr
\* elements at most, bare or wrapped in prose; text without an array; an
\* exception.
QuizOuts ==
    {[wrap |-> w, arr |-> a, out |-> Wrapped(w, Dumps(JList(a)))] :
        w \in Wraps, a \in Arrays}
    \cup {[wrap |-> "raw", arr |-> <<>>, out |-> x] : x \in RawTexts \cup {Raised}}

InitQuiz ==
    /\ phase = "up"
    /\ fileExists = FALSE /\ file = ""
    /\ ai_cache = <<>>
    /\ th = [t \in Threads |-> NoRequest]
    /\ resp = NoRequest
    /\ first = [k \in Subs \X Qs |-> None]
    /\ nreq = 0
    /\ qz = NoQuiz

\* Line 236: GET /ai_quiz/<sub> calls generate_ai_mcqs.  The route asks for
\* 5 questions; the function is run for the other counts too.
ai_quiz_get(subject, num_questions, o) ==
    /\ qz.pc = "start"
    /\ LET g == generate_ai_mcqs(subject, num_questions, o.out)
       IN  qz' = [NoQuiz EXCEPT !.pc = "generated", !.subject = subject,
                                !.num_questions = num_questions,
                                !.wrap = o.wrap, !.arr = o.arr, !.out = o.out,
                                !.path = g.path, !.mcqs = g.mcqs]
    /\ UNCHANGED <<phase, fileExists, file, ai_cache, th, resp, first, nreq>>

\* Line 237: the page sent to the client holds the quiz and json.dumps of it;
\* the server keeps nothing.
render_quiz ==
    /\ qz.pc = "generated"
    /\ qz' = [NoQuiz EXCEPT !.pc = "shown", !.mcqs = qz.mcqs,
                            !.mcqs_json = Dumps(JList(qz.mcqs))]
    /\ UNCHANGED <<phase, fileExists, file, ai_cache, th, resp, first, nreq>>

\* Lines 221-234: POST /ai_quiz/<sub> with the form fields mcqs_json (None:
\* absent) and q0, q1, ...
submit(mcqs_json, sel) ==
    /\ qz.pc = "shown"
    /\ LET s == ai_quiz_post(mcqs_json, sel)
       IN  qz' = [qz EXCEPT !.pc = "scored", !.sent = mcqs_json, !.sel = sel,
                            !.status = s.status, !.score = s.score,
                            !.total = s.total]
    /\ UNCHANGED <<phase, fileExists, file, ai_cache, th, resp, first, nreq>>

NextQuiz ==
    \/ \E subject \in Subs, num_questions \in Counts, o \in QuizOuts :
            ai_quiz_get(subject, num_questions, o)
    \/ render_quiz
    \/ \E mcqs_json \in {qz.mcqs_json, None} \cup Tampered, sel \in Fields :
            submit(mcqs_json, sel)

SpecQuiz == InitQuiz /\ [][NextQuiz]_vars

(***************************************************************************)
(* Properties                                                              *)
(***************************************************************************)
\* The last request to return was a call of get_answer.
Resolved == resp.pc = "done" /\ resp.op = "resolve"

InStore(sub, question) ==
    sub \in DOMAIN questions /\ question \in DOMAIN questions[sub]

\* No request is being served.
AllIdle == \A t \in Threads : th[t].pc = "idle"

\* C1: a resolve of a (subject, question) pair of the Content Store returns
\* the stored answer and makes no remote call, whatever the Cache holds.
C1_StoreAnswer ==
    (Resolved /\ InStore(resp.sub, resp.question))
        => /\ resp.ret = questions[resp.sub][resp.question]
           /\ ~resp.called

\* C1's case: the pair is in the store while the Cache holds another answer
\* under the same question text.
C1_Witness ==
    /\ Resolved /\ InStore(resp.sub, resp.question)
    /\ CacheHit(ai_cache, resp.question)
    /\ ItemGet(ai_cache, resp.question) # resp.ret

\* The request a step begins, if it begins one: it is in the thread that
\* took it or, when it returned at once, in resp.
Begun(th0, th1, resp1) ==
    IF th1 = th0 THEN resp1
    ELSE th1[CHOOSE t \in Threads : th1[t] # th0[t]]

\* C2: a resolve of a pair that is not in the Content Store and whose question
\* is a key of the Cache returns the cached value at once, makes no remote
\* call, and leaves the Cache and the persisted file as they are.
C2_CacheAnswer ==
    [][ (nreq' # nreq
          /\ ~InStore(Begun(th, th', resp').sub, Begun(th, th', resp').question)
          /\ Begun(th, th', resp').question \in Keys(ai_cache))
        => /\ th' = th
           /\ resp'.pc = "done"
           /\ resp'.ret = ItemGet(ai_cache, resp'.question)
           /\ ~resp'.called /\ ~resp'.wrote
           /\ ai_cache' = ai_cache
           /\ file' = file /\ fileExists' = fileExists ]_vars

\* C2's case: such a resolve has returned the cached value.
C2_Witness ==
    /\ Resolved /\ ~InStore(resp.sub, resp.question)
    /\ resp.hadKey /\ ~resp.called
    /\ CacheHit(ai_cache, resp.question)
    /\ resp.ret = ItemGet(ai_cache, resp.question)

\* C3: once a resolve of an unseen question has returned after a remote call
\* that succeeded, every resolve of the same subject and question that begins
\* later returns what that first call returned and makes no remote call.
C3_SameAnswerLater ==
    (Resolved /\ resp.expect # None)
        => /\ resp.ret = resp.expect
           /\ ~resp.called

\* C4: resolve writes the Cache only when the remote call gave non-empty
\* text; when it gave empty text or raised, resolve returns a failure message
\* and has not written the Cache.
C4_WriteOnlyNonEmpty ==
    /\ \A t \in Threads : th[t].wrote => th[t].remote = "text"
    /\ (Resolved /\ resp.remote \in {"empty", "raised"})
          => /\ resp.ret \in {EmptyMessage, FailedMessage}
             /\ ~resp.wrote

\* C9: start-up completes whatever the persisted cache file holds.
C9_StartupCompletes == phase # "crashed"

\* The requests that thread t's request runs beside or after.
OthersOf(t) ==
    {th[u] : u \in {v \in Threads : v # t /\ th[v].pc # "idle"}}
    \cup (IF resp.pc = "done" THEN {resp} ELSE {})

\* Thread t's resolve and the others are resolves of different unseen
\* questions that the remote model answered with non-empty text.
Racing(t) ==
    /\ th[t].remote = "text"
    /\ OthersOf(t) # {}
    /\ \A r \in OthersOf(t) : r.remote = "text" /\ r.question # th[t].question

WellFormedQuestion(q) ==
    /\ q.t = "dict"
    /\ {"question", "options", "answer"} \subseteq Keys(q.items)
    /\ LET options == ItemGet(q.items, "options")
       IN  /\ options.t = "list"
           /\ Len(options.items) = 4
           /\ \E i \in 1..4 : options.items[i] = ItemGet(q.items, "answer")

\* The elements of the model's array that are well-formed questions.
GoodOf(arr) == {i \in 1..Len(arr) : WellFormedQuestion(arr[i])}

\* The remote text holds an array and no other bracket.
CleanArray == qz.wrap \in {"bare", "prose"}

\* C5 as stated: generate returns exactly count questions whatever the remote
\* call ends in.
C5_ExactlyCount ==
    qz.pc = "generated" => Len(qz.mcqs) = qz.num_questions

\* C5 as amended: generate returns exactly count questions when it falls back
\* (an exception, text that is no JSON between its first "[" and last "]", an
\* array with no element that passes); otherwise it returns as many questions
\* as elements pass, at least one.
C5_CountOnFallback ==
    qz.pc = "generated"
        => /\ qz.path \in {"fallback", "validated"}
           /\ qz.path = "fallback" => Len(qz.mcqs) = qz.num_questions
           /\ ~CleanArray => qz.path = "fallback"
           /\ (CleanArray /\ GoodOf(qz.arr) = {}) => qz.path = "fallback"
           /\ (CleanArray /\ GoodOf(qz.arr) # {})
                 => /\ qz.path = "validated"
                    /\ Len(qz.mcqs) = Cardinality(GoodOf(qz.arr))

\* C5's case: a quiz of validated questions that are not count many.
C5_Witness ==
    /\ qz.pc = "generated" /\ qz.path = "validated"
    /\ Len(qz.mcqs) > qz.num_questions

\* C6: every question generate returns has a question, exactly 4 options and
\* an answer among them; the elements of the model's array that do not are
\* dropped, and when none is left the quiz is the fallback quiz.
C6_QuizWellFormed ==
    qz.pc = "generated"
        => /\ \A i \in 1..Len(qz.mcqs) : WellFormedQuestion(qz.mcqs[i])
           /\ CleanArray
                => /\ \A i \in 1..Len(qz.arr) :
                        ~WellFormedQuestion(qz.arr[i])
                            => \A j \in 1..Len(qz.mcqs) : qz.mcqs[j] # qz.arr[i]
                   /\ \A i \in GoodOf(qz.arr) :
                        \E j \in 1..Len(qz.mcqs) : qz.mcqs[j] = qz.arr[i]
           /\ (CleanArray /\ GoodOf(qz.arr) = {})
                => /\ Len(qz.mcqs) = qz.num_questions
                   /\ \A i \in 1..Len(qz.mcqs) :
                        ItemGet(qz.mcqs[i].items, "answer") = JStr("Option A")

\* C6's case: some elements of the array were dropped and some were kept.
C6_Witness ==
    /\ qz.pc = "generated" /\ qz.path = "validated" /\ CleanArray
    /\ Len(qz.mcqs) < Len(qz.arr)

\* The answer of a question, JNull when it has none.
AnswerOf(q) ==
    IF "answer" \in Keys(q.items) THEN ItemGet(q.items, "answer") ELSE JNull

\* The client sent back the quiz it was given.
SentBack == qz.pc = "scored" /\ qz.sent = qz.mcqs_json

\* C7: the score of a quiz counts the indices whose submitted option is
\* present and equal to the answer, out of the length of the quiz.
C7_Score ==
    SentBack
        => /\ qz.status = 200
           /\ qz.total = Len(qz.mcqs)
           /\ qz.score = Cardinality({i \in 1..Len(qz.mcqs) :
                            /\ Selected(qz.sel, i - 1) # None
                            /\ AnswerOf(qz.mcqs[i]) = JStr(Selected(qz.sel, i - 1))})
           /\ qz.score <= qz.total

\* The blob sent is a quiz: a JSON list of records.
SentQuiz ==
    /\ qz.pc = "scored" /\ qz.sent # None
    /\ JsonLoads(qz.sent).ok
    /\ JsonLoads(qz.sent).v.t = "list"
    /\ \A i \in 1..Len(JsonLoads(qz.sent).v.items) :
            JsonLoads(qz.sent).v.items[i].t = "dict"

\* C8: an empty submission scores 0 out of the length of the quiz, for every
\* quiz the client sends, one whose questions have no answer included.
C8_EmptySubmission ==
    (SentQuiz /\ qz.sel = <<>>)
        => /\ qz.status = 200
           /\ qz.score = 0
           /\ qz.total = Len(JsonLoads(qz.sent).v.items)
====
